---- MODULE Spec2Model ----
(***************************************************************************)
(* Chebyshev filter design tool: the ladder extractor of                   *)
(* cauer_synthesis.py, the design session of filter_core.py and the        *)
(* pipeline of chebyshev_filter.py.                                        *)
(*                                                                         *)
(* Numbers.  A real coefficient is an exact fraction <<n, d>> in lowest    *)
(* terms with d >= 0.  d = 0 holds the three values a floating division by *)
(* zero yields: <<1, 0>> is +inf, <<-1, 0>> is -inf and <<0, 0>> is nan.   *)
(* Floating rounding is not modelled.                                      *)
(***************************************************************************)
EXTENDS Integers, Sequences, FiniteSets, TLC

VARIABLES
    \* ---- CauerSynthesis.cauer_synthesis (one call) ----
    pc,            \* position in cauer_synthesis
    num, den,      \* the arguments of the call
    num_current, den_current, kn_values, iteration,
    L_values, C_values,
    aborted,       \* TRUE when the call ended in an early "return [], []"
    \* ---- _remove_leading_zeros called on its own ----
    poly, trimmed,
    \* ---- main and the ChebyshevCore session ----
    entry,         \* "main": main() runs; "api": the session is used directly
    mpc,           \* position in main, or the state of the directly used session
    N, e1, e2, dc, \* the parameters read or passed
    constructed,   \* ChebyshevCore.__init__ has run
    core,          \* the fields of the ChebyshevCore object
    calls,         \* the design modes called so far, each with what it raised
    raised,        \* the exception of the last call, or NoError
    cauerInvoked,  \* main has called cauer_synthesis
    output         \* the lines main has printed

cauerVars == <<pc, num, den, num_current, den_current, kn_values, iteration,
               L_values, C_values, aborted>>
polyVars  == <<poly, trimmed>>
mainVars  == <<entry, mpc, N, e1, e2, dc, constructed, core, calls, raised,
               cauerInvoked, output>>

\* A field that is None is the empty tuple; one that holds v is <<v>>.
None == <<>>
Some(v) == <<v>>
IsNone(x) == Len(x) = 0
Val(x) == x[1]

\* ------------------------------------------------------------------ bounds
MaxNumLen == 4
MaxDenLen == 3
MaxPolyLen == 3
MaxN == 3
MaxCalls == 2

\* The parameters a session is given.
NValues == -1..MaxN
EValues == {0, 1, 2}
DcValues == {0, 1}

\* The integer values the coefficients of an input are drawn from.
NumCoefs == {-1, 0, 1, 2}
DenCoefs == {-1, 0, 1}

\* ------------------------------------------------------------- arithmetic
Abs(x) == IF x < 0 THEN -x ELSE x

RECURSIVE GCD(_, _)
GCD(a, b) == IF b = 0 THEN a ELSE GCD(b, a % b)

\* The fraction n/d in lowest terms, d >= 0 (n and d are bound once, as values).
Norm(n, d) ==
    CHOOSE r \in {LET g == GCD(Abs(p[1]), Abs(p[2]))
                      s == IF p[2] < 0 THEN -1 ELSE 1
                  IN  IF g = 0 THEN <<0, 0>>
                      ELSE <<(s * p[1]) \div g, (s * p[2]) \div g>> :
                  p \in {<<n, d>>}} : TRUE

R(i) == <<i, 1>>
RSub(x, y) == Norm(x[1] * y[2] - y[1] * x[2], x[2] * y[2])
RMul(x, y) == Norm(x[1] * y[1], x[2] * y[2])
\* x / y as numpy divides: a zero divisor gives +inf, -inf or nan.
RDiv(x, y) == Norm(x[1] * y[2], x[2] * y[1])
\* x != 0
RNonZero(x) == ~(x[1] = 0 /\ x[2] # 0)
\* x < 0 (false of nan)
RNeg(x) == x[1] < 0
\* x >= 0 (false of nan)
RNonNeg(x) == x[1] > 0 \/ (x[1] = 0 /\ x[2] # 0)

\* The tolerance 1e-10 of _remove_leading_zeros is 1 / (TolRoot * TolRoot).
TolRoot == 100000
\* abs(x) > 1e-10, that is |n| * 10^10 > d, computed without leaving 32 bits
\* (true of an infinity, false of nan).
AbsGtTol(x) ==
    IF x[2] = 0 THEN x[1] # 0
    ELSE Abs(x[1]) * TolRoot > x[2] \div TolRoot

\* Sequence helpers.
SeqsUpTo(S, n) == UNION {[1..k -> S] : k \in 0..n}
RSeq(s) == [i \in 1..Len(s) |-> R(s[i])]
\* a - k * b for arrays of one length
SubScaled(a, k, b) == [i \in 1..Len(a) |-> RSub(a[i], RMul(k, b[i]))]

\* ------------------------------------------------ _remove_leading_zeros
\* The index (from 0) the loop leaves in start_idx: that of the first
\* coefficient above the tolerance, and 0 when there is none.
StartIdx(p) ==
    LET hits == {i \in 1..Len(p) : AbsGtTol(p[i])}
    IN  IF hits = {} THEN 0
        ELSE (CHOOSE i \in hits : \A j \in hits : i <= j) - 1

_remove_leading_zeros(p) ==
    IF Len(p) = 0 THEN p
    ELSE IF StartIdx(p) < Len(p) THEN SubSeq(p, StartIdx(p) + 1, Len(p))
         ELSE <<R(0)>>

\* ------------------------------------------------------ cauer_synthesis
\* den_s_current: the denominator with a zero prepended.
DenS(d) == <<R(0)>> \o d

\* The partition of kn_values (lines 95-107): negative values are skipped,
\* the others go by their index in kn_values.
KeepAt_NoSkip(kn, parity) == {i \in 1..Len(kn) : (i - 1) % 2 = parity}

KeepAt(kn, parity) ==
    {i \in 1..Len(kn) : (i - 1) % 2 = parity /\ ~RNeg(kn[i])}

RECURSIVE SelectIdx(_, _, _)
SelectIdx(kn, keep, i) ==
    IF i > Len(kn) THEN <<>>
    ELSE (IF i \in keep THEN <<kn[i]>> ELSE <<>>) \o SelectIdx(kn, keep, i + 1)

SeparateL(kn) == SelectIdx(kn, KeepAt(kn, 0), 1)
SeparateC(kn) == SelectIdx(kn, KeepAt(kn, 1), 1)

\* "return [], []"
Abort ==
    /\ pc' = "done"
    /\ aborted' = TRUE
    /\ L_values' = <<>>
    /\ C_values' = <<>>
    /\ UNCHANGED <<num, den, num_current, den_current, kn_values, iteration>>

\* The pipeline variables while cauer_synthesis or _remove_leading_zeros is
\* called on its own.
MainIdle ==
    /\ entry = "none" /\ mpc = "idle" /\ N = 0 /\ e1 = 0 /\ e2 = 0 /\ dc = 0
    /\ constructed = FALSE /\ core = [pk11 |-> None] /\ calls = <<>>
    /\ raised = "none" /\ cauerInvoked = FALSE /\ output = <<>>

CauerInit ==
    /\ MainIdle
    /\ poly = <<>>
    /\ trimmed = None
    /\ num \in {RSeq(s) : s \in SeqsUpTo(NumCoefs, MaxNumLen)}
    /\ den \in {RSeq(s) : s \in SeqsUpTo(DenCoefs, MaxDenLen)}
    /\ pc = "initial"
    /\ num_current = num
    /\ den_current = den
    /\ kn_values = <<>>
    /\ iteration = 1
    /\ L_values = <<>>
    /\ C_values = <<>>
    /\ aborted = FALSE

\* Lines 37-54: the initial step.
InitialStep ==
    /\ pc = "initial"
    /\ LET den_s == DenS(den_current)
       IN  IF Len(num_current) = Len(den_s)
           THEN \E k \in {IF RNonZero(den_s[1])
                           THEN RDiv(num_current[1], den_s[1]) ELSE R(0)} :
                \* line 49 has already replaced num_current when line 50 reads it
                \E num1 \in {den_current} :
                \E den1 \in {SubScaled(num1, k, Tail(den_s))} :
                    IF RNeg(k) THEN Abort
                    ELSE /\ kn_values' = Append(kn_values, k)
                         /\ num_current' = num1
                         /\ den_current' = _remove_leading_zeros(den1)
                         /\ pc' = "loop"
                         /\ UNCHANGED <<num, den, iteration, L_values, C_values, aborted>>
           ELSE /\ pc' = "loop"
                /\ UNCHANGED <<num, den, num_current, den_current, kn_values,
                               iteration, L_values, C_values, aborted>>
    /\ UNCHANGED <<polyVars, mainVars>>

\* The polynomial division branch with "iteration += 1" moved into the
\* "if den_current[0] != 0" block: a pass that divides nothing counts nothing.
PlainDivision_NoCount ==
    /\ pc = "loop"
    /\ Len(den_current) > 1
    /\ Len(num_current) = Len(den_current) /\ (iteration + 1) % 2 = 0
    /\ IF RNonZero(den_current[1])
       THEN \E q \in {RDiv(num_current[1], den_current[1])} :
            \E remainder \in {SubScaled(num_current, q, den_current)} :
                IF RNeg(q) THEN Abort
                ELSE /\ kn_values' = Append(kn_values, q)
                     /\ num_current' = den_current
                     /\ den_current' = _remove_leading_zeros(remainder)
                     /\ iteration' = iteration + 1
                     /\ UNCHANGED <<pc, num, den, L_values, C_values, aborted>>
       ELSE UNCHANGED <<pc, num, den, num_current, den_current, kn_values,
                        iteration, L_values, C_values, aborted>>
    /\ UNCHANGED <<polyVars, mainVars>>

\* Lines 55-69: one pass of the loop through the polynomial division branch.
PlainDivision ==
    /\ pc = "loop"
    /\ Len(den_current) > 1
    /\ Len(num_current) = Len(den_current) /\ (iteration + 1) % 2 = 0
    /\ IF RNonZero(den_current[1])
       THEN \E q \in {RDiv(num_current[1], den_current[1])} :
            \E remainder \in {SubScaled(num_current, q, den_current)} :
                IF RNeg(q) THEN Abort
                ELSE /\ kn_values' = Append(kn_values, q)
                     /\ num_current' = den_current
                     /\ den_current' = _remove_leading_zeros(remainder)
                     /\ iteration' = iteration + 1
                     /\ UNCHANGED <<pc, num, den, L_values, C_values, aborted>>
       ELSE /\ iteration' = iteration + 1
            /\ UNCHANGED <<pc, num, den, num_current, den_current, kn_values,
                           L_values, C_values, aborted>>
    /\ UNCHANGED <<polyVars, mainVars>>

\* Lines 55-57, 71-84: one pass of the loop through the Cauer step branch.
CauerStep ==
    /\ pc = "loop"
    /\ Len(den_current) > 1
    /\ ~(Len(num_current) = Len(den_current) /\ (iteration + 1) % 2 = 0)
    /\ Len(num_current) = Len(den_current) + 1 /\ (iteration + 1) % 2 = 1
    /\ LET den_s == DenS(den_current)
       IN  IF Len(den_s) > 0 /\ RNonZero(den_s[1])
           THEN \E k \in {RDiv(num_current[1], den_s[1])} :
                \E num1 \in {den_current} :
                \E den1 \in {SubScaled(num1, k, Tail(den_s))} :
                    IF RNeg(k) THEN Abort
                    ELSE /\ kn_values' = Append(kn_values, k)
                         /\ num_current' = num1
                         /\ den_current' = _remove_leading_zeros(den1)
                         /\ iteration' = iteration + 1
                         /\ UNCHANGED <<pc, num, den, L_values, C_values, aborted>>
           ELSE /\ iteration' = iteration + 1
                /\ UNCHANGED <<pc, num, den, num_current, den_current, kn_values,
                               L_values, C_values, aborted>>
    /\ UNCHANGED <<polyVars, mainVars>>

\* Lines 55-57, 85-86: neither branch applies, the loop is left by break.
LoopBreak ==
    /\ pc = "loop"
    /\ Len(den_current) > 1
    /\ ~(Len(num_current) = Len(den_current) /\ (iteration + 1) % 2 = 0)
    /\ ~(Len(num_current) = Len(den_current) + 1 /\ (iteration + 1) % 2 = 1)
    /\ iteration' = iteration + 1
    /\ pc' = "final"
    /\ UNCHANGED <<num, den, num_current, den_current, kn_values,
                   L_values, C_values, aborted, polyVars, mainVars>>

\* Line 55: the loop condition fails.
LoopExit ==
    /\ pc = "loop"
    /\ ~(Len(den_current) > 1)
    /\ pc' = "final"
    /\ UNCHANGED <<num, den, num_current, den_current, kn_values, iteration,
                   L_values, C_values, aborted, polyVars, mainVars>>

\* Lines 88-93: the final steps.
FinalAppend(kn, p, q) ==
    LET kn1 == IF RNonZero(q[1]) THEN Append(kn, RDiv(p[1], q[1])) ELSE kn
    IN  IF Len(p) > 1 THEN Append(kn1, RDiv(p[2], q[1])) ELSE kn1

FinalSteps ==
    /\ pc = "final"
    /\ kn_values' = IF Len(den_current) = 1 /\ Len(num_current) >= 1
                    THEN FinalAppend(kn_values, num_current, den_current)
                    ELSE kn_values
    /\ pc' = "separate"
    /\ UNCHANGED <<num, den, num_current, den_current, iteration,
                   L_values, C_values, aborted, polyVars, mainVars>>

\* Lines 95-109: the partition and the return.
Separate ==
    /\ pc = "separate"
    /\ L_values' = SeparateL(kn_values)
    /\ C_values' = SeparateC(kn_values)
    /\ pc' = "done"
    /\ UNCHANGED <<num, den, num_current, den_current, kn_values, iteration,
                   aborted, polyVars, mainVars>>

\* ------------------------------------------ _remove_leading_zeros alone
PolyInit ==
    /\ MainIdle
    /\ pc = "idle"
    /\ num = <<>> /\ den = <<>> /\ num_current = <<>> /\ den_current = <<>>
    /\ kn_values = <<>> /\ iteration = 0
    /\ L_values = <<>> /\ C_values = <<>> /\ aborted = FALSE
    /\ poly \in {RSeq(s) : s \in SeqsUpTo(NumCoefs, MaxPolyLen) \ {<<>>}}
    /\ trimmed = None

ApplyTrim ==
    /\ IsNone(trimmed)
    /\ trimmed' = Some(_remove_leading_zeros(poly))
    /\ UNCHANGED <<poly, cauerVars, mainVars>>

\* ====================================================== filter_core.py
\* Complex numbers are pairs <<re, im>> of integers.  Pole coordinates are
\* held in units of 1/16 (hyperbolic and circular functions each rounded to
\* quarters), so a coefficient of s^(n-j) of a degree-n expansion is in
\* units of 16^(-j) and the leading coefficient 1 is exact.
CAdd(x, y) == <<x[1] + y[1], x[2] + y[2]>>
CSub(x, y) == <<x[1] - y[1], x[2] - y[2]>>
CMul(x, y) == <<x[1] * y[1] - x[2] * y[2], x[1] * y[2] + x[2] * y[1]>>
CZero == <<0, 0>>
COne == <<1, 0>>

\* 4 * sin(j * pi / 48), rounded, for j = 0..24.
SinTab == <<0, 0, 1, 1, 1, 1, 2, 2, 2, 2, 2, 3, 3, 3, 3, 3, 3,
            4, 4, 4, 4, 4, 4, 4, 4>>
\* sin and cos of j * pi / 48 for 0 <= j <= 48, in quarters.
Sin48(j) == IF j <= 24 THEN SinTab[j + 1] ELSE SinTab[48 - j + 1]
Cos48(j) == IF j <= 24 THEN SinTab[24 - j + 1] ELSE -SinTab[j - 24 + 1]
\* sinh(asinh(1/e) / m) and cosh(asinh(1/e) / m) for e in {1, 2}, in quarters
\* (a sinh below 1/8 is kept at one quarter: it is positive).
SinhQ(e, m) ==
    IF e = 1 /\ m = 1 THEN 4
    ELSE IF (e = 1 /\ m = 2) \/ (e = 2 /\ m = 1) THEN 2 ELSE 1
CoshQ(e, m) == IF e = 1 /\ m = 1 THEN 6 ELSE 4

Angle11_Even(i, n) == ((2 * i) * 48) \div (2 * n)

\* Lines 52 and 74: the angle of pole i, as a multiple of pi / 48.
Angle11(i, n) == ((2 * i + 1) * 48) \div (2 * n)
Angle2(i, n) == ((2 * i + 1) * 48) \div (4 * n)

\* Lines 48-54: pk11 (with e1) and pk12 (with e2), of size N.
PolesN(n, e) ==
    [k \in 1..n |-> <<-(SinhQ(e, n) * Sin48(Angle11(k - 1, n))),
                      CoshQ(e, n) * Cos48(Angle11(k - 1, n))>>]
\* Lines 69-75: pk2, of size 2N, with e12.
Poles2N(n, e) ==
    [k \in 1..(2 * n) |-> <<-(SinhQ(e, 2 * n) * Sin48(Angle2(k - 1, n))),
                            CoshQ(e, 2 * n) * Cos48(Angle2(k - 1, n))>>]

\* Lines 178-183: poly_coeffs times (s - pole).
TimesSMinus(p, pole) ==
    [j \in 1..(Len(p) + 1) |->
        CSub(IF j <= Len(p) THEN p[j] ELSE CZero,
             IF j >= 2 THEN CMul(p[j - 1], pole) ELSE CZero)]

RECURSIVE ExpandFrom(_, _, _)
ExpandFrom(p, poles, i) ==
    IF i > Len(poles) THEN p
    ELSE ExpandFrom(TimesSMinus(p, poles[i]), poles, i + 1)

\* abs(c.imag) < 1e-10: of a whole number of units of at least 16^(-8),
\* only zero is that small.
ImagSmall(c) == c[2] = 0
\* Lines 184-185 and 187-200: a coefficient with a small imaginary part is
\* replaced by its real part.
CleanCoef(c) == IF ImagSmall(c) THEN <<c[1], 0>> ELSE c
_clean_coeffs(coeffs) == [j \in 1..Len(coeffs) |-> CleanCoef(coeffs[j])]

_poles_to_poly(poles) == _clean_coeffs(ExpandFrom(<<COne>>, poles, 1))

\* np.convolve of two coefficient arrays.
RECURSIVE ConvSum(_, _, _, _)
ConvSum(a, b, k, i) ==
    IF i > Len(a) THEN CZero
    ELSE CAdd(IF k - i + 1 >= 1 /\ k - i + 1 <= Len(b)
              THEN CMul(a[i], b[k - i + 1]) ELSE CZero,
              ConvSum(a, b, k, i + 1))
Convolve(a, b) == [k \in 1..(Len(a) + Len(b) - 1) |-> ConvSum(a, b, k, 1)]

RECURSIVE Pow2(_)
Pow2(k) == IF k <= 0 THEN 1 ELSE 2 * Pow2(k - 1)

\* Lines 57-58 and 77: the numerator scalar 1 / (e * 2^(m-1)).
NumScalar(e, m) == Norm(1, e * Pow2(m - 1))

NoError == "none"

\* The fields __init__ sets to None (lines 27-38).
NewCore ==
    [TF_F1 |-> None, TF_F2 |-> None, NUM1 |-> None, DEN1 |-> None,
     NUM2 |-> None, DEN2 |-> None, pk11 |-> None, pk12 |-> None, pk2 |-> None]

\* design_with_dc_drop (lines 40-86).  Line 43 divides by N and by e1, line
\* 45 by e2: a zero raises ZeroDivisionError; line 48 raises ValueError for a
\* negative size.  Nothing is assigned before either.
WithDropError(n, a, b) ==
    IF n = 0 \/ a = 0 \/ b = 0 THEN "ZeroDivisionError"
    ELSE IF n < 0 THEN "ValueError" ELSE NoError

With_pk11_Extends(n, a) ==
    IF IsNone(core.pk11) THEN PolesN(n, a) ELSE Val(core.pk11) \o PolesN(n, a)

With_pk11(n, a) == PolesN(n, a)
With_pk12(n, b) == PolesN(n, b)
With_pk2(n, a, b) == Poles2N(n, a * b)
With_NUM1(n, a, b) == <<RMul(NumScalar(a, n), NumScalar(b, n))>>
With_DEN1(n, a, b) ==
    Convolve(_poles_to_poly(With_pk11(n, a)), _poles_to_poly(With_pk12(n, b)))
With_NUM2(n, a, b) == NumScalar(a * b, 2 * n)
With_DEN2(n, a, b) == _poles_to_poly(With_pk2(n, a, b))

WithDropFields(n, a, b) ==
    [pk11 |-> Some(With_pk11(n, a)),
     pk12 |-> Some(With_pk12(n, b)),
     pk2 |-> Some(With_pk2(n, a, b)),
     NUM1 |-> Some(With_NUM1(n, a, b)),
     DEN1 |-> Some(With_DEN1(n, a, b)),
     NUM2 |-> Some(With_NUM2(n, a, b)),
     DEN2 |-> Some(With_DEN2(n, a, b)),
     TF_F1 |-> Some(<<With_NUM1(n, a, b), _clean_coeffs(With_DEN1(n, a, b))>>),
     TF_F2 |-> Some(<<With_NUM2(n, a, b), _clean_coeffs(With_DEN2(n, a, b))>>)]

\* ---- _generate_chebyshev_poly (lines 147-172) ----
\* A polynomial in w is the tuple of its integer coefficients, constant
\* term first.
PCoef(p, j) == IF j >= 1 /\ j <= Len(p) THEN p[j] ELSE 0
RECURSIVE PMulSum(_, _, _, _)
PMulSum(a, b, k, i) ==
    IF i > Len(a) THEN 0
    ELSE a[i] * PCoef(b, k - i + 1) + PMulSum(a, b, k, i + 1)
PMul(a, b) == [k \in 1..(Len(a) + Len(b) - 1) |-> PMulSum(a, b, k, 1)]
PSub(a, b) ==
    [k \in 1..(IF Len(a) > Len(b) THEN Len(a) ELSE Len(b)) |->
        PCoef(a, k) - PCoef(b, k)]
PScale(c, a) == [k \in 1..Len(a) |-> c * a[k]]
PW == <<0, 1>>

\* T[j] of a Python list: j from -len to len - 1.
PyInRange(T, j) == j >= -Len(T) /\ j < Len(T)
PyAt(T, j) == IF j >= 0 THEN T[j + 1] ELSE T[Len(T) + j + 1]

Raise(e) == [err |-> e, val |-> <<>>]
Return(v) == [err |-> NoError, val |-> v]

\* Lines 167-172: the for loop from i to n, then "return T[n]".
RECURSIVE ChebFor(_, _, _)
ChebFor(T, i, n) ==
    IF i > n
    THEN IF PyInRange(T, n) THEN Return(PyAt(T, n)) ELSE Raise("IndexError")
    ELSE IF i > 3
         THEN IF PyInRange(T, i - 1) /\ PyInRange(T, i - 2)
              THEN ChebFor(Append(T, PSub(PScale(2, PMul(PW, PyAt(T, i - 1))),
                                          PyAt(T, i - 2))), i + 1, n)
              ELSE Raise("IndexError")
         ELSE ChebFor(T, i + 1, n)

\* Lines 161-165: the while loop over the powers of two.
RECURSIVE ChebWhile(_, _, _)
ChebWhile(T, k, n) ==
    IF Pow2(k) <= n
    THEN IF PyInRange(T, Pow2(k - 1))
         THEN ChebWhile(Append(T, PSub(PScale(2, PMul(PyAt(T, Pow2(k - 1)),
                                                      PyAt(T, Pow2(k - 1)))),
                                       <<1>>)), k + 1, n)
         ELSE Raise("IndexError")
    ELSE ChebFor(T, Len(T), n)

_generate_chebyshev_poly(n) ==
    IF n = 0 THEN Return(<<1>>)
    ELSE IF n = 1 THEN Return(PW)
    ELSE IF n = 2 THEN Return(<<-1, 0, 2>>)
    ELSE IF n = 3 THEN Return(<<0, -3, 0, 4>>)
    ELSE ChebWhile(<<<<1>>, PW>>, 2, n)

\* ---- design_without_dc_drop (lines 88-145) ----
\* Lines 90-95: what is raised before any root is solved for.
WithoutDropError(n) ==
    IF n % 2 # 0 THEN "ValueError"
    ELSE IF _generate_chebyshev_poly(n).err # NoError
         THEN _generate_chebyshev_poly(n).err
         ELSE _generate_chebyshev_poly(2 * n).err

\* Lines 104 to 107: the roots with negative real part among those the
\* solver returned, cut to the first m.
Take(s, m) == SubSeq(s, 1, IF m < Len(s) THEN m ELSE Len(s))
RECURSIVE LeftHalf(_, _)
LeftHalf(roots, i) ==
    IF i > Len(roots) THEN <<>>
    ELSE (IF roots[i][1] < 0 THEN <<roots[i]>> ELSE <<>>) \o LeftHalf(roots, i + 1)
SelectPoles(roots, m) == Take(LeftHalf(roots, 1), m)

\* What sympy's solve returns for 1 + (e * L_m(s/i))^2.  For m = 0 the
\* expression is the constant 1 + e^2, which has no root.  No other order
\* reaches the solver (WithoutDropError), and the roots of the rotated
\* polynomial are not modelled for them.
SolverRoots(e, m) == <<>>

\* Lines 118-119, 135: the product of the negated poles.
RECURSIVE NegProd(_, _)
NegProd(poles, i) ==
    IF i > Len(poles) THEN COne
    ELSE CMul(CSub(CZero, poles[i]), NegProd(poles, i + 1))

WithoutDropFields(n, a, b) ==
    LET p11 == SelectPoles(SolverRoots(a, n), n)
        p12 == SelectPoles(SolverRoots(b, n), n)
        p2 == SelectPoles(SolverRoots(a * b, 2 * n), 2 * n)
        n1 == Convolve(<<NegProd(p11, 1)>>, <<NegProd(p12, 1)>>)
        d1 == Convolve(_poles_to_poly(p11), _poles_to_poly(p12))
        n2 == NegProd(p2, 1)
        d2 == _poles_to_poly(p2)
    IN  [pk11 |-> Some(p11), pk12 |-> Some(p12), pk2 |-> Some(p2),
         NUM1 |-> Some(n1), DEN1 |-> Some(d1),
         NUM2 |-> Some(n2), DEN2 |-> Some(d2),
         TF_F1 |-> Some(<<_clean_coeffs(n1), _clean_coeffs(d1)>>),
         TF_F2 |-> Some(<<n2, _clean_coeffs(d2)>>)]

\* One call of a design mode on the session: the fields and what is raised.
DesignWith ==
    /\ calls' = Append(calls, <<"with", WithDropError(N, e1, e2)>>)
    /\ raised' = WithDropError(N, e1, e2)
    /\ core' = IF WithDropError(N, e1, e2) = NoError
               THEN WithDropFields(N, e1, e2) ELSE core

DesignWithout ==
    /\ calls' = Append(calls, <<"without", WithoutDropError(N)>>)
    /\ raised' = WithoutDropError(N)
    /\ core' = IF WithoutDropError(N) = NoError
               THEN WithoutDropFields(N, e1, e2) ELSE core

\* ================================================= chebyshev_filter.py
UseWithDrop_FlagOnly(d, n) == d = 0

\* Line 47: which design mode main calls.
UseWithDrop(d, n) == d = 0 \/ n % 2 # 0

\* hasattr(core, 'Zin1'): no line of the repository assigns Zin1.
HasZin1 == "Zin1" \in DOMAIN core

MainInit ==
    /\ entry \in {"main", "api"}
    /\ N \in NValues
    /\ e1 \in EValues
    /\ e2 \in EValues
    /\ dc \in DcValues
    /\ mpc = "start"
    /\ constructed = FALSE
    /\ core = NewCore
    /\ calls = <<>>
    /\ raised = NoError
    /\ cauerInvoked = FALSE
    /\ output = <<>>
    /\ pc = "idle"
    /\ num = <<>> /\ den = <<>> /\ num_current = <<>> /\ den_current = <<>>
    /\ kn_values = <<>> /\ iteration = 0
    /\ L_values = <<>> /\ C_values = <<>> /\ aborted = FALSE
    /\ poly = <<>> /\ trimmed = None

\* Lines 31-34: N is read and checked.
MainReadN ==
    /\ entry = "main" /\ mpc = "start"
    /\ IF N <= 1
       THEN /\ output' = Append(output, "N must be equal or greater than 2")
            /\ mpc' = "returned"
       ELSE /\ mpc' = "construct"
            /\ UNCHANGED output
    /\ UNCHANGED <<entry, N, e1, e2, dc, constructed, core, calls, raised,
                   cauerInvoked, cauerVars, polyVars>>

\* Lines 36-44: the other parameters are read, the session is constructed.
MainConstruct ==
    /\ entry = "main" /\ mpc = "construct"
    /\ constructed' = TRUE
    /\ core' = NewCore
    /\ mpc' = "design"
    /\ UNCHANGED <<entry, N, e1, e2, dc, calls, raised, cauerInvoked, output,
                   cauerVars, polyVars>>

\* Lines 47-48.
MainDesignWith ==
    /\ entry = "main" /\ mpc = "design"
    /\ UseWithDrop(dc, N)
    /\ DesignWith
    /\ mpc' = IF raised' = NoError THEN "collaborators" ELSE "raised"
    /\ UNCHANGED <<entry, N, e1, e2, dc, constructed, cauerInvoked, output,
                   cauerVars, polyVars>>

\* Lines 49-50.
MainDesignWithout ==
    /\ entry = "main" /\ mpc = "design"
    /\ ~UseWithDrop(dc, N)
    /\ DesignWithout
    /\ mpc' = IF raised' = NoError THEN "collaborators" ELSE "raised"
    /\ UNCHANGED <<entry, N, e1, e2, dc, constructed, cauerInvoked, output,
                   cauerVars, polyVars>>

\* Lines 52-65: the plots, the transmission matrices and the Yanagisawa
\* synthesis.  They assign no field of the session; whether matplotlib, scipy
\* and sympy accept their arguments is left open: they return or raise.
MainCollaborators ==
    /\ entry = "main" /\ mpc = "collaborators"
    /\ \E ok \in BOOLEAN :
          /\ mpc' = IF ok THEN "cauer" ELSE "raised"
          /\ raised' = IF ok THEN raised ELSE "LibraryError"
    /\ UNCHANGED <<entry, N, e1, e2, dc, constructed, core, calls,
                   cauerInvoked, output, cauerVars, polyVars>>

\* Lines 67-72: the Cauer synthesis, when the session has a Zin1.
MainCauer ==
    /\ entry = "main" /\ mpc = "cauer"
    /\ IF HasZin1
       THEN /\ cauerInvoked' = TRUE
            /\ output' = output \o <<"Cauer synthesis F1 - L values",
                                     "Cauer synthesis F1 - C values">>
       ELSE UNCHANGED <<cauerInvoked, output>>
    /\ mpc' = "display"
    /\ UNCHANGED <<entry, N, e1, e2, dc, constructed, core, calls, raised,
                   cauerVars, polyVars>>

\* Lines 74-81: the results are displayed and main ends.
MainDisplay ==
    /\ entry = "main" /\ mpc = "display"
    /\ output' = Append(output, "Transmission matrix decomposition")
    /\ mpc' = "done"
    /\ UNCHANGED <<entry, N, e1, e2, dc, constructed, core, calls, raised,
                   cauerInvoked, cauerVars, polyVars>>

\* ---- the session used without main ----
\* ChebyshevCore(N, e1, e2, Rg_denorm, RL_denorm) (lines 13-38).
ApiConstruct ==
    /\ entry = "api" /\ mpc = "start"
    /\ constructed' = TRUE
    /\ core' = NewCore
    /\ mpc' = "session"
    /\ UNCHANGED <<entry, N, e1, e2, dc, calls, raised, cauerInvoked, output,
                   cauerVars, polyVars>>

ApiDesignWith ==
    /\ entry = "api" /\ mpc = "session"
    /\ Len(calls) < MaxCalls
    /\ DesignWith
    /\ UNCHANGED <<entry, mpc, N, e1, e2, dc, constructed, cauerInvoked, output,
                   cauerVars, polyVars>>

ApiDesignWithout ==
    /\ entry = "api" /\ mpc = "session"
    /\ Len(calls) < MaxCalls
    /\ DesignWithout
    /\ UNCHANGED <<entry, mpc, N, e1, e2, dc, constructed, cauerInvoked, output,
                   cauerVars, polyVars>>

vars == <<cauerVars, polyVars, mainVars>>

\* main run on every input of the bounds, and the session used directly.
Next ==
    \/ MainReadN
    \/ MainConstruct
    \/ MainDesignWith
    \/ MainDesignWithout
    \/ MainCollaborators
    \/ MainCauer
    \/ MainDisplay
    \/ ApiConstruct
    \/ ApiDesignWith
    \/ ApiDesignWithout

Spec == MainInit /\ [][Next]_vars

\* cauer_synthesis called with every input of the bounds.
CauerNext ==
    \/ InitialStep
    \/ PlainDivision
    \/ CauerStep
    \/ LoopBreak
    \/ LoopExit
    \/ FinalSteps
    \/ Separate

\* _remove_leading_zeros called with every non-empty polynomial of the bounds.
SpecPoly == PolyInit /\ [][ApplyTrim]_vars

SpecCauer == CauerInit /\ [][CauerNext]_vars

\* The call runs on until it returns: the interpreter executes the next
\* statement whenever there is one.
\* Before the call: nothing has been passed yet.
CauerIdle ==
    /\ MainIdle
    /\ poly = <<>>
    /\ trimmed = None
    /\ pc = "call"
    /\ num = <<>> /\ den = <<>> /\ num_current = <<>> /\ den_current = <<>>
    /\ kn_values = <<>>
    /\ iteration = 1
    /\ L_values = <<>> /\ C_values = <<>>
    /\ aborted = FALSE

\* Lines 21-35: the call with a pair (num, den) of the bounds, the numerator
\* with coefficients 0 and 1.
CallNumCoefs == {0, 1}
CauerCall ==
    /\ pc = "call"
    /\ num' \in {RSeq(s) : s \in SeqsUpTo(CallNumCoefs, MaxNumLen)}
    /\ den' \in {RSeq(s) : s \in SeqsUpTo(DenCoefs, MaxDenLen)}
    /\ num_current' = num'
    /\ den_current' = den'
    /\ kn_values' = <<>>
    /\ pc' = "initial"
    /\ UNCHANGED <<iteration, L_values, C_values, aborted, polyVars, mainVars>>

CauerFairNext == CauerCall \/ CauerNext

SpecCauerFair == CauerIdle /\ [][CauerFairNext]_vars /\ WF_vars(CauerNext)

\* ================================================================ claims
Range(s) == {s[i] : i \in 1..Len(s)}

\* |x - t| <= 1e-9 * |t| for a whole number t, x = n/d finite:
\* |n - t*d| * 10^9 <= |t| * d.
RelTolInv == 1000 * 1000 * 1000
CloseTo(x, t) ==
    /\ x[2] # 0
    /\ Abs(x[1] - t * x[2]) <= (Abs(t) * x[2]) \div RelTolInv

\* C1: cauer_synthesis on the driving-point impedance of the ladder L=1, C=1,
\* L=1 ended in 1 ohm (num = [1,1,2,1], den = [1,1,1]) returns the inductor
\* list [1, 1] and the capacitor list [1] within 1e-9 relative tolerance.
C1_RoundTrip ==
    (pc = "done" /\ num = RSeq(<<1, 1, 2, 1>>) /\ den = RSeq(<<1, 1, 1>>))
        => /\ Len(L_values) = 2 /\ Len(C_values) = 1
           /\ \A i \in 1..Len(L_values) : CloseTo(L_values[i], 1)
           /\ \A i \in 1..Len(C_values) : CloseTo(C_values[i], 1)

\* C2: every value of the inductor list and of the capacitor list that
\* cauer_synthesis returns is non-negative.
C2_NonNegative ==
    pc = "done" =>
        /\ \A i \in 1..Len(L_values) : RNonNeg(L_values[i])
        /\ \A i \in 1..Len(C_values) : RNonNeg(C_values[i])

\* The number of entries of kn up to index i that the partition keeps on the
\* side of the given parity.
KeptUpTo(kn, i, parity) ==
    Cardinality({j \in 1..i : (j - 1) % 2 = parity /\ ~RNeg(kn[j])})

\* Every entry of kn that is not negative is returned, in L from an even
\* position and in C from an odd one, in order, and nothing else is.
PartitionKeepsTheRest ==
    /\ Len(L_values) = KeptUpTo(kn_values, Len(kn_values), 0)
    /\ Len(C_values) = KeptUpTo(kn_values, Len(kn_values), 1)
    /\ \A i \in 1..Len(kn_values) :
          ~RNeg(kn_values[i]) =>
              IF (i - 1) % 2 = 0
              THEN L_values[KeptUpTo(kn_values, i, 0)] = kn_values[i]
              ELSE C_values[KeptUpTo(kn_values, i, 1)] = kn_values[i]

\* The expansion came to a negative coefficient: a division step found its
\* quotient negative (the call then ends early), or kn_values holds one.
NegativeProduced ==
    aborted \/ \E i \in 1..Len(kn_values) : RNeg(kn_values[i])

\* C3 as claimed: when the expansion produces a negative coefficient, only
\* that coefficient is skipped, the others are returned by position, and the
\* result is not the empty pair.
C3_SkipOnlyNegative ==
    (pc = "done" /\ NegativeProduced)
        => /\ ~aborted
           /\ PartitionKeepsTheRest
           /\ ~(L_values = <<>> /\ C_values = <<>>)

\* C3 as amended: a negative quotient in a division step ends the call with
\* the empty pair; in a call that reaches the partition, a negative entry of
\* kn_values (the final steps can append one) is the only thing skipped:
\* every other entry is returned, in L from an even position and in C from
\* an odd one.
C3_SkipInPartition ==
    pc = "done" =>
        IF aborted THEN L_values = <<>> /\ C_values = <<>>
        ELSE PartitionKeepsTheRest

\* A call that reached the partition with a negative entry after one that
\* is kept.
C3_Witness ==
    /\ pc = "done" /\ ~aborted
    /\ \E i, j \in 1..Len(kn_values) :
          i < j /\ RNonNeg(kn_values[i]) /\ RNeg(kn_values[j])
    /\ Len(L_values) + Len(C_values) >= 1

\* C4: for an odd N >= 2 and either value of the DC-drop flag, main calls
\* design_with_dc_drop and never design_without_dc_drop, whose ValueError is
\* therefore never raised.
AfterDesign == {"collaborators", "cauer", "display", "done", "raised"}
C4_OddFallback ==
    (entry = "main" /\ N >= 2 /\ N % 2 = 1)
        => /\ \A i \in 1..Len(calls) : calls[i][1] = "with"
           /\ raised # "ValueError"
           /\ mpc \in AfterDesign => Len(calls) = 1

\* main with N = 3 and the flag asking for the DC-drop-free design, after
\* the design step.
C4_Witness ==
    /\ entry = "main" /\ N = 3 /\ dc = 1
    /\ calls = <<<<"with", NoError>>>>

\* A pole array that holds at least one computed pole.
HoldsPoles(x) == ~IsNone(x) /\ Len(Val(x)) >= 1

\* C5: in no state with N <= 1 has a pole of pk11, pk12 or pk2 been
\* computed, whether the design is started by main or by constructing
\* ChebyshevCore and calling a design mode.
C5_RejectedBeforePoles ==
    N <= 1 =>
        ~HoldsPoles(core.pk11) /\ ~HoldsPoles(core.pk12) /\ ~HoldsPoles(core.pk2)

IsMonicReal(p, deg) ==
    /\ Len(p) = deg + 1
    /\ p[1] = COne
    /\ \A j \in 1..Len(p) : p[j][2] = 0

WithDropReturned == \E i \in 1..Len(calls) : calls[i] = <<"with", NoError>>

\* C7: of the pole sets design_with_dc_drop generates (pk11 and pk12 of
\* size N, pk2 of size 2N) _poles_to_poly returns a monic polynomial with
\* real coefficients whose degree is the size of the set; DEN1 and DEN2 have
\* degree 2N.
C7_PolesToPoly ==
    WithDropReturned =>
        /\ Len(Val(core.pk11)) = N /\ Len(Val(core.pk12)) = N
        /\ Len(Val(core.pk2)) = 2 * N
        /\ IsMonicReal(_poles_to_poly(Val(core.pk11)), N)
        /\ IsMonicReal(_poles_to_poly(Val(core.pk12)), N)
        /\ IsMonicReal(_poles_to_poly(Val(core.pk2)), 2 * N)
        /\ IsMonicReal(Val(core.DEN1), 2 * N)
        /\ IsMonicReal(Val(core.DEN2), 2 * N)

\* design_with_dc_drop has returned for N = 3, with poles off the real axis.
C7_Witness ==
    /\ WithDropReturned /\ N = 3
    /\ \E k \in 1..Len(Val(core.pk2)) : Val(core.pk2)[k][2] # 0

AllSmall(p) == \A i \in 1..Len(p) : ~AbsGtTol(p[i])

\* C8: _remove_leading_zeros drops every leading coefficient of magnitude
\* <= 1e-10, returns [0] for a polynomial all of whose coefficients are that
\* small, and never returns an empty sequence.
C8_TrimLeadingZeros ==
    ~IsNone(trimmed) =>
        LET t == Val(trimmed)
        IN  /\ Len(t) >= 1
            /\ AllSmall(poly) => t = <<R(0)>>
            /\ ~AllSmall(poly) =>
                  /\ AbsGtTol(t[1])
                  /\ t = SubSeq(poly, Len(poly) - Len(t) + 1, Len(poly))
                  /\ \A i \in 1..(Len(poly) - Len(t)) : ~AbsGtTol(poly[i])

\* C10: a run of main with N >= 2 whose design step returned F1 and F2 has,
\* when main ends, called cauer_synthesis and printed its inductor and
\* capacitor sequences.
C10_CauerReached ==
    (entry = "main" /\ mpc = "done")
        => /\ cauerInvoked
           /\ "Cauer synthesis F1 - L values" \in Range(output)
           /\ "Cauer synthesis F1 - C values" \in Range(output)

\* numpy's shapes for a - k * b on one-dimensional arrays: the lengths are
\* equal, or an array of length one is stretched to the other's length.
Compatible(a, b) == Len(a) = Len(b) \/ Len(a) = 1 \/ Len(b) = 1
CommonLen(a, b) == IF Len(a) = 1 THEN Len(b) ELSE Len(a)
Stretch(a, n) == IF Len(a) = n THEN a ELSE [i \in 1..n |-> a[1]]
SubScaledStretched(a, k, b) ==
    SubScaled(Stretch(a, CommonLen(a, b)), k, Stretch(b, CommonLen(a, b)))

\* C11: when the initial step of cauer_synthesis applies, it leaves the old
\* denominator in num_current and, in den_current, the trimmed difference of
\* the numerator as it was before the step and k0 times the old denominator,
\* k0 being the value the step appended.
C11_InitialFromOldNum ==
    [][(/\ pc = "initial"
        /\ Len(num_current) = Len(den_current) + 1
        /\ Compatible(num_current, den_current)
        /\ pc' = "loop")
       => /\ num_current' = den_current
          /\ den_current' =
                _remove_leading_zeros(
                    SubScaledStretched(num_current,
                                       kn_values'[Len(kn_values')],
                                       den_current))]_vars

\* T_n by the three-term recurrence T_0 = 1, T_1 = w, T_n = 2w T_{n-1} - T_{n-2}.
RECURSIVE ChebT(_)
ChebT(n) ==
    IF n = 0 THEN <<1>>
    ELSE IF n = 1 THEN PW
    ELSE PSub(PScale(2, PMul(PW, ChebT(n - 1))), ChebT(n - 2))

\* design_without_dc_drop has been called on the session.
WithoutCalled == \E i \in 1..Len(calls) : calls[i][1] = "without"

\* C12: once design_without_dc_drop has been called with an even N >= 0, so
\* that it has asked for the polynomials of order N and 2N, each of the two
\* calls of _generate_chebyshev_poly returns T_n of the recurrence and raises
\* nothing.
C12_ChebyshevRecurrence ==
    (WithoutCalled /\ N >= 0 /\ N % 2 = 0)
        => \A n \in {N, 2 * N} : _generate_chebyshev_poly(n) = Return(ChebT(n))

\* C13: every call of cauer_synthesis on arrays of finite length leaves the
\* while loop and returns.
C13_Terminates == (pc = "initial") ~> (pc = "done")

\* A call that has returned after a polynomial division pass found a zero
\* leading denominator coefficient, appended nothing and left both
\* polynomials as they were.
C13_Witness ==
    /\ pc = "done" /\ ~aborted
    /\ iteration = 3
    /\ kn_values = <<>>
    /\ num_current = num /\ den_current = den
    /\ Len(den) > 1 /\ Len(num) = Len(den)
    /\ ~RNonZero(den[1])

\* The divisors of the divisions that the statement about to run performs
\* (lines 42, 61, 76, 91 and 93, each under the conditions that lead to it).
NextDivisors ==
    IF pc = "initial"
    THEN IF /\ Len(num_current) = Len(DenS(den_current))
            /\ RNonZero(DenS(den_current)[1])
         THEN {DenS(den_current)[1]} ELSE {}
    ELSE IF pc = "loop" /\ Len(den_current) > 1
    THEN IF Len(num_current) = Len(den_current) /\ (iteration + 1) % 2 = 0
         THEN IF RNonZero(den_current[1]) THEN {den_current[1]} ELSE {}
         ELSE IF /\ Len(num_current) = Len(den_current) + 1
                 /\ (iteration + 1) % 2 = 1
                 /\ RNonZero(DenS(den_current)[1])
              THEN {DenS(den_current)[1]} ELSE {}
    ELSE IF pc = "final" /\ Len(den_current) = 1 /\ Len(num_current) >= 1
    THEN (IF RNonZero(den_current[1]) THEN {den_current[1]} ELSE {})
         \cup (IF Len(num_current) > 1 THEN {den_current[1]} ELSE {})
    ELSE {}

\* C14: no statement of cauer_synthesis divides by zero: every divisor of a
\* division about to be performed is non-zero.
C14_NoDivisionByZero == \A d \in NextDivisors : RNonZero(d)


====
